---------------------------- MODULE Spec2Model ----------------------------
(***************************************************************************)
(* Inventory optimisation engine (inventory_engine.py), alert engine       *)
(* (alert_engine.py) and combined report (utils.py) of the supply-chain    *)
(* dashboard.                                                              *)
(*                                                                         *)
(* Numbers.  The Python code computes in binary floating point and rounds  *)
(* to a fixed number of decimals.  The model computes the same values      *)
(* exactly, in fixed point:                                                *)
(*   - money (INR, round(x, 2))       : integer paise (1/100 INR)          *)
(*   - Days_of_Supply, percentages    : integer tenths (round(x, 1))       *)
(*   - Daily_Demand (round(x, 4))     : integer 1/10000                    *)
(*   - Holding_Cost_Pct               : integer quarters (1 = 0.25)        *)
(*   - holding cost per unit hc_pu    : integer quarter-INR ("H4")         *)
(*   - z_score 1.65                   : the fraction 33/20                 *)
(* All inputs drawn below are exactly representable as floats, and         *)
(* Python's round() rounds the exact value half-to-even, which is what     *)
(* RoundHalfEven does.                                                     *)
(***************************************************************************)
EXTENDS Integers, Sequences, FiniteSets, TLC

VARIABLES
    params,     \* the input table params_df: a sequence of CategoryParams rows
    inv,        \* outcome of the last run_optimization(params) call
    inv_prev,   \* outcome of the run_optimization call before that one
    alerts,     \* outcome of the last generate_alerts(inv.df) call
    savings,    \* outcome of the last cost_savings_analysis(params, baseline) call
    call,       \* the last direct call of a Formula Library function
    report,     \* outcome of the last combined_report(inv.df, alerts.df) call
    stats,      \* outcome of the last alert_summary_stats(inv.df) call
    sql         \* outcome of the last to_sql_insert(inv.df) call

vars == <<params, inv, inv_prev, alerts, savings, call, report, stats, sql>>

----------------------------------------------------------------------------
(* Bounds of the model *)

MaxRows == 3        \* longest input table
MaxDemand == 4      \* Formula Library calls: annual demand 0..MaxDemand
MaxOrderCost == 3   \* Formula Library calls: ordering cost 0..MaxOrderCost
MaxHolding == 33    \* Formula Library calls: hc_pu in quarter-INR -2..MaxHolding
MaxQty == 4         \* Formula Library calls: stock / ROP / EOQ arguments 0..MaxQty

----------------------------------------------------------------------------
(* Program constants *)

WORKING_DAYS == 250     \* DEFAULT_PARAMS["working_days"], run_optimization default
LEAD_TIME_DAYS == 14    \* DEFAULT_PARAMS["lead_time_days"]
ORDERING_COST == 2500   \* DEFAULT_PARAMS["ordering_cost"]
Z_SCORE_NUM == 33       \* z_score = 1.65 = 33/20
Z_SCORE_DEN == 20
DAYS_PER_MONTH == 30    \* safety_stock(days_per_month = 30)
BASELINE_ORDER_QTY == 1000  \* cost_savings_analysis(baseline_order_qty = 1000)
PCT_DEN == 4            \* Holding_Cost_Pct and hc_pu are counted in quarters

PRODUCTS == <<"Electronics", "Apparel", "Home & Kitchen",
              "Sports & Outdoors", "Beauty & Health">>

----------------------------------------------------------------------------
(* Outcomes of a call: a returned value or a raised exception *)

Ok(v) == [status |-> "ok", ret |-> v]
Raise(exc) == [status |-> exc, ret |-> 0]

----------------------------------------------------------------------------
(* Arithmetic of the Python built-ins the code uses *)

Abs(x) == IF x < 0 THEN -x ELSE x

Max(a, b) == IF a >= b THEN a ELSE b

\* round(n / d) for d > 0: nearest integer, ties to the even one (Python 3 round)
RoundHalfEven(n, d) ==
    LET a == Abs(n)
        q == a \div d
        r == a % d
        m == IF 2 * r < d THEN q
             ELSE IF 2 * r > d THEN q + 1
             ELSE IF q % 2 = 0 THEN q ELSE q + 1
    IN  IF n < 0 THEN -m ELSE m

\* floor(x * 10^k / d) and the remainder, by long division (x >= 0, d > 0)
RECURSIVE DecDiv(_, _, _)
DecDiv(x, d, k) ==
    IF k = 0 THEN [q |-> x \div d, r |-> x % d]
    ELSE LET p == DecDiv(x, d, k - 1)
         IN  [q |-> p.q * 10 + (p.r * 10) \div d, r |-> (p.r * 10) % d]

\* round(n / d, k) in units of 10^-k, for d > 0: ties to even.  A percentage
\* round(n / d * 100, 1), in tenths of a percent, is RoundDec(n, d, 3).
RoundDec(n, d, k) ==
    LET p == DecDiv(Abs(n), d, k)
        m == IF 2 * p.r < d THEN p.q
             ELSE IF 2 * p.r > d THEN p.q + 1
             ELSE IF p.q % 2 = 0 THEN p.q ELSE p.q + 1
    IN  IF n < 0 THEN -m ELSE m

\* floor(sqrt(n)) for n >= 0, by bisection on lo <= sqrt(n) < hi
RECURSIVE SqrtSearch(_, _, _)
SqrtSearch(n, lo, hi) ==
    IF hi - lo <= 1 THEN lo
    ELSE LET mid == (lo + hi) \div 2
         IN  IF mid * mid <= n THEN SqrtSearch(n, mid, hi)
                               ELSE SqrtSearch(n, lo, mid)

ISqrt(n) == SqrtSearch(n, 0, 46341)

\* round(math.sqrt(n / d)) for n >= 0, d > 0.  With t = floor(2 * sqrt(n/d)):
\* t even puts sqrt(n/d) in [t/2, t/2 + 1/2), t odd in [(t+1)/2 - 1/2, (t+1)/2);
\* the exact half (4n = t^2 * d, t odd) goes to the even neighbour.
RoundSqrt(n, d) ==
    LET t == ISqrt((4 * n) \div d)
        k == t \div 2
    IN  IF t % 2 = 0 THEN k
        ELSE IF 4 * n = t * t * d THEN (IF k % 2 = 0 THEN k ELSE k + 1)
        ELSE k + 1


----------------------------------------------------------------------------
(* Formula Library: inventory_engine.py, "Core Formulas" *)

\* eoq with int(math.sqrt(...)): the root truncated instead of rounded
eoq_truncated(annual_demand, ordering_cost, hc4) ==
    IF hc4 <= 0 THEN Raise("ValueError")
    ELSE IF annual_demand * ordering_cost < 0 THEN Raise("ValueError")
    ELSE Ok(ISqrt((2 * annual_demand * ordering_cost * PCT_DEN) \div hc4))

\* eoq(annual_demand, ordering_cost, holding_cost_pu), holding_cost_pu = hc4 / 4.
\* 2*D*S/H = 2*D*S*PCT_DEN / hc4.  math.sqrt of a negative number raises
\* ValueError ("math domain error").
eoq(annual_demand, ordering_cost, hc4) ==
    IF hc4 <= 0 THEN Raise("ValueError")
    ELSE IF annual_demand * ordering_cost < 0 THEN Raise("ValueError")
    ELSE Ok(RoundSqrt(2 * annual_demand * ordering_cost * PCT_DEN, hc4))

\* safety_stock(std_dev, lead_time_days, z_score = 1.65, days_per_month = 30):
\* round(z * sd * sqrt(lt / 30)) = sign(z * sd) * round(sqrt(z^2 * sd^2 * lt / 30))
safety_stock(std_dev, lead_time_days) ==
    LET m == RoundSqrt(Z_SCORE_NUM * Z_SCORE_NUM * std_dev * std_dev * lead_time_days,
                       Z_SCORE_DEN * Z_SCORE_DEN * DAYS_PER_MONTH)
    IN  IF std_dev < 0 THEN -m ELSE m

\* reorder_point: round(D / working_days * LT + ss)
reorder_point(annual_demand, working_days, lead_time_days, ss) ==
    RoundHalfEven(annual_demand * lead_time_days + ss * working_days, working_days)

\* daily_demand: round(D / working_days, 4), in 1/10000
daily_demand(annual_demand, working_days) ==
    RoundDec(annual_demand, working_days, 4)

\* annual_holding_cost: round((eoq_qty / 2 + ss) * H, 2), in paise
annual_holding_cost(eoq_qty, ss, hc4) ==
    RoundDec((eoq_qty + 2 * ss) * hc4, 2 * PCT_DEN, 2)

\* annual_ordering_cost without the "if eoq_qty > 0" guard: D / 0 raises
annual_ordering_cost_unguarded(annual_demand, eoq_qty, ordering_cost) ==
    IF eoq_qty = 0 THEN Raise("ZeroDivisionError")
    ELSE Ok(RoundDec(annual_demand * ordering_cost, Abs(eoq_qty), 2)
            * (IF eoq_qty < 0 THEN -1 ELSE 1))

\* annual_ordering_cost: round(D / eoq_qty * S, 2) if eoq_qty > 0 else 0.0, in paise
annual_ordering_cost(annual_demand, eoq_qty, ordering_cost) ==
    IF eoq_qty > 0 THEN Ok(RoundDec(annual_demand * ordering_cost, eoq_qty, 2))
    ELSE Ok(0)

\* total_inventory_cost: round(ahc + aoc, 2), in paise
total_inventory_cost(ahc, aoc) == ahc + aoc

\* days_of_supply: dd = D / working_days; round(cs / dd, 1) if dd > 0 else 0.0,
\* in tenths of a day
days_of_supply(current_stock, ann_demand, working_days) ==
    IF working_days = 0 THEN Raise("ZeroDivisionError")
    ELSE IF (ann_demand > 0) = (working_days > 0) /\ ann_demand # 0
         THEN Ok(RoundDec(current_stock * Abs(working_days), Abs(ann_demand), 1))
         ELSE Ok(0)

\* stockout_risk without the max(0.0, ...) clamp
stockout_risk_unclamped(current_stock, rop) ==
    IF rop > 0 THEN Ok(RoundDec(rop - current_stock, rop, 3))
    ELSE Ok(0)

\* stockout_risk: max(0.0, round((1 - cs / rop) * 100, 1)) if rop > 0 else 0.0,
\* in tenths of a percent
stockout_risk(current_stock, rop) ==
    IF rop > 0 THEN Ok(Max(0, RoundDec(rop - current_stock, rop, 3)))
    ELSE Ok(0)

\* Alert_Status tags (the leading emoji of the Python strings is dropped)
TAG_CRITICAL == "CRITICAL - Below Safety Stock"
TAG_REORDER == "REORDER NOW"
TAG_EXCESS == "EXCESS STOCK"
TAG_HEALTHY == "HEALTHY"

\* alert_status with the excess test written >= : a stock exactly on
\* reorder point + EOQ is tagged as excess
alert_status_ge(current_stock, ss, rop, eoq_qty) ==
    IF current_stock < ss THEN TAG_CRITICAL
    ELSE IF current_stock < rop THEN TAG_REORDER
    ELSE IF current_stock >= rop + eoq_qty THEN TAG_EXCESS
    ELSE TAG_HEALTHY

alert_status(current_stock, ss, rop, eoq_qty) ==
    IF current_stock < ss THEN TAG_CRITICAL
    ELSE IF current_stock < rop THEN TAG_REORDER
    ELSE IF current_stock > rop + eoq_qty THEN TAG_EXCESS
    ELSE TAG_HEALTHY

_action(cs, ss, rop, excess) ==
    IF cs < ss THEN "Emergency order now"
    ELSE IF cs < rop THEN "Place replenishment order"
    ELSE IF excess > 0 THEN "Review demand; consider promotion"
    ELSE "No action needed"

----------------------------------------------------------------------------
(* Optimization Pipeline: run_optimization *)

\* hc_pu = r["Unit_Cost_INR"] * r["Holding_Cost_Pct"], in quarter-INR
HoldingCostPU(r) == r.Unit_Cost_INR * r.Holding_Cost_Pct

\* The exception, if any, that the loop body raises on row r: the calls in the
\* order the body makes them.
RowError(r, ordering_cost) ==
    LET eq  == eoq(r.Annual_Demand, ordering_cost, HoldingCostPU(r))
        ss  == safety_stock(r.Demand_StdDev, LEAD_TIME_DAYS)
        rop == reorder_point(r.Annual_Demand, WORKING_DAYS, LEAD_TIME_DAYS, ss)
        aoc == annual_ordering_cost(r.Annual_Demand, eq.ret, ordering_cost)
        dos == days_of_supply(r.Current_Stock, r.Annual_Demand, WORKING_DAYS)
        sr  == stockout_risk(r.Current_Stock, rop)
    IN  IF eq.status # "ok" THEN eq.status
        ELSE IF aoc.status # "ok" THEN aoc.status
        ELSE IF dos.status # "ok" THEN dos.status
        ELSE sr.status

\* The dict the loop body appends for row r (when nothing raises)
MetricsRow(r, ordering_cost) ==
    LET hc_pu  == HoldingCostPU(r)
        eq     == eoq(r.Annual_Demand, ordering_cost, hc_pu).ret
        ss     == safety_stock(r.Demand_StdDev, LEAD_TIME_DAYS)
        rop    == reorder_point(r.Annual_Demand, WORKING_DAYS, LEAD_TIME_DAYS, ss)
        dd     == daily_demand(r.Annual_Demand, WORKING_DAYS)
        ahc    == annual_holding_cost(eq, ss, hc_pu)
        aoc    == annual_ordering_cost(r.Annual_Demand, eq, ordering_cost).ret
        tic    == total_inventory_cost(ahc, aoc)
        cs     == r.Current_Stock
        excess == Max(0, cs - (rop + eq))
    IN  [ Category                 |-> r.Category,
          Unit_Cost_INR            |-> r.Unit_Cost_INR,
          Holding_Cost_Per_Unit    |-> RoundDec(hc_pu, PCT_DEN, 2),
          Annual_Demand            |-> r.Annual_Demand,
          Demand_StdDev            |-> r.Demand_StdDev,
          Daily_Demand             |-> dd,
          EOQ_Units                |-> eq,
          Safety_Stock             |-> ss,
          Reorder_Point            |-> rop,
          Current_Stock            |-> cs,
          Days_of_Supply           |-> days_of_supply(cs, r.Annual_Demand, WORKING_DAYS).ret,
          Stockout_Risk_Pct        |-> stockout_risk(cs, rop).ret,
          Excess_Stock             |-> excess,
          Excess_Holding_Cost_INR  |-> RoundDec(excess * hc_pu, PCT_DEN, 2),
          Annual_Holding_Cost_INR  |-> ahc,
          Annual_Ordering_Cost_INR |-> aoc,
          Total_Inventory_Cost_INR |-> tic,
          Alert_Status             |-> alert_status(cs, ss, rop, eq),
          Recommended_Action       |-> _action(cs, ss, rop, excess) ]

\* What run_optimization hands back: the DataFrame, or the exception that left it
NoResult == [status |-> "none", df |-> <<>>]
Returned(rows) == [status |-> "ok", df |-> rows]
Raised(exc) == [status |-> exc, df |-> <<>>]

\* rows.insert(0, {...}): the new row put in front
AppendRow_in_front(rows, i, row) == <<row>> \o rows

\* rows.append({...}) for loop index i
AppendRow(rows, i, row) == Append(rows, row)

\* The loop with the exception caught per row: a bad row is skipped and the
\* rows computed so far are returned
RECURSIVE OptimizeLoop_skip_bad_rows(_, _, _, _)
OptimizeLoop_skip_bad_rows(P, ordering_cost, i, rows) ==
    IF i > Len(P) THEN Returned(rows)
    ELSE IF RowError(P[i], ordering_cost) # "ok"
         THEN OptimizeLoop_skip_bad_rows(P, ordering_cost, i + 1, rows)
         ELSE OptimizeLoop_skip_bad_rows(P, ordering_cost, i + 1,
                           AppendRow(rows, i, MetricsRow(P[i], ordering_cost)))

\* for _, r in params_df.iterrows(): ... rows.append(...); return pd.DataFrame(rows)
RECURSIVE OptimizeLoop(_, _, _, _)
OptimizeLoop(P, ordering_cost, i, rows) ==
    IF i > Len(P) THEN Returned(rows)
    ELSE IF RowError(P[i], ordering_cost) # "ok"
         THEN Raised(RowError(P[i], ordering_cost))
         ELSE OptimizeLoop(P, ordering_cost, i + 1,
                           AppendRow(rows, i, MetricsRow(P[i], ordering_cost)))

run_optimization(P, ordering_cost) == OptimizeLoop(P, ordering_cost, 1, <<>>)

----------------------------------------------------------------------------
(* Cost-Savings Comparator: cost_savings_analysis *)

\* A float that may be a number (v, in tenths of a percent) or, after a numpy
\* division by zero, nan or an infinity
Num(v) == [kind |-> "num", v |-> v]
NaN == [kind |-> "nan", v |-> 0]
NegInf == [kind |-> "-inf", v |-> 0]
PosInf == [kind |-> "inf", v |-> 0]

\* The dict appended for row r (when eoq does not raise), costs in paise
SavingsRow(r, baseline_order_qty, ordering_cost) ==
    LET hc_pu == HoldingCostPU(r)
        ss    == safety_stock(r.Demand_StdDev, LEAD_TIME_DAYS)
        eq    == eoq(r.Annual_Demand, ordering_cost, hc_pu).ret
        cost_before == total_inventory_cost(
            annual_holding_cost(baseline_order_qty, ss, hc_pu),
            annual_ordering_cost(r.Annual_Demand, baseline_order_qty, ordering_cost).ret)
        cost_after == total_inventory_cost(
            annual_holding_cost(eq, ss, hc_pu),
            annual_ordering_cost(r.Annual_Demand, eq, ordering_cost).ret)
        saving_pct == IF cost_before > 0
                      THEN RoundDec(cost_before - cost_after, cost_before, 3)
                      ELSE 0
    IN  [ Category        |-> r.Category,
          Before_Cost_INR |-> cost_before,
          After_Cost_INR  |-> cost_after,
          Saving_INR      |-> cost_before - cost_after,
          Saving_Pct      |-> Num(saving_pct) ]

\* The exception, if any, raised while computing row r of the comparison
SavingsRowError(r, baseline_order_qty, ordering_cost) ==
    LET eq  == eoq(r.Annual_Demand, ordering_cost, HoldingCostPU(r))
        aob == annual_ordering_cost(r.Annual_Demand, baseline_order_qty, ordering_cost)
        aoa == annual_ordering_cost(r.Annual_Demand, eq.ret, ordering_cost)
    IN  IF eq.status # "ok" THEN eq.status
        ELSE IF aob.status # "ok" THEN aob.status
        ELSE aoa.status

RECURSIVE SavingsLoop(_, _, _, _, _)
SavingsLoop(P, baseline_order_qty, ordering_cost, i, rows) ==
    IF i > Len(P) THEN Returned(rows)
    ELSE IF SavingsRowError(P[i], baseline_order_qty, ordering_cost) # "ok"
         THEN Raised(SavingsRowError(P[i], baseline_order_qty, ordering_cost))
         ELSE SavingsLoop(P, baseline_order_qty, ordering_cost, i + 1,
                  Append(rows, SavingsRow(P[i], baseline_order_qty, ordering_cost)))

\* df[column].sum()
RECURSIVE SumBefore(_)
SumBefore(rows) ==
    IF rows = <<>> THEN 0 ELSE rows[1].Before_Cost_INR + SumBefore(Tail(rows))

RECURSIVE SumAfter(_)
SumAfter(rows) ==
    IF rows = <<>> THEN 0 ELSE rows[1].After_Cost_INR + SumAfter(Tail(rows))

\* round((total_before - total_after) / total_before * 100, 1) on numpy.float64
\* operands: a zero divisor does not raise, it gives nan (0/0) or an infinity
TotalSavingPct(total_before, total_after) ==
    IF total_before # 0
    THEN Num(RoundDec(total_before - total_after, Abs(total_before), 3)
             * (IF total_before < 0 THEN -1 ELSE 1))
    ELSE IF total_before - total_after = 0 THEN NaN
    ELSE IF total_before - total_after < 0 THEN NegInf
    ELSE PosInf

\* df.loc[len(df)] = {"Category": "TOTAL", ...}
TotalRow(rows) ==
    LET total_before == SumBefore(rows)
        total_after  == SumAfter(rows)
    IN  [ Category        |-> "TOTAL",
          Before_Cost_INR |-> total_before,
          After_Cost_INR  |-> total_after,
          Saving_INR      |-> total_before - total_after,
          Saving_Pct      |-> TotalSavingPct(total_before, total_after) ]

\* pd.DataFrame([]) has no columns: df["Before_Cost_INR"] raises KeyError
cost_savings_analysis(P, baseline_order_qty, ordering_cost) ==
    LET loop == SavingsLoop(P, baseline_order_qty, ordering_cost, 1, <<>>)
    IN  IF loop.status # "ok" THEN loop
        ELSE IF loop.df = <<>> THEN Raised("KeyError")
        ELSE Returned(Append(loop.df, TotalRow(loop.df)))

----------------------------------------------------------------------------
(* Alert Classifier: alert_engine.py *)

ALERT_THRESHOLDS(level) ==
    CASE level = "CRITICAL" -> 1
      [] level = "REORDER"  -> 2
      [] level = "EXCESS"   -> 3
      [] level = "HEALTHY"  -> 4

\* classify_alert with its first two tests in the other order
classify_alert_reorder_first(row) ==
    IF row.Current_Stock < row.Reorder_Point THEN "REORDER"
    ELSE IF row.Current_Stock < row.Safety_Stock THEN "CRITICAL"
    ELSE IF row.Excess_Stock > 0 THEN "EXCESS"
    ELSE "HEALTHY"

classify_alert(row) ==
    IF row.Current_Stock < row.Safety_Stock THEN "CRITICAL"
    ELSE IF row.Current_Stock < row.Reorder_Point THEN "REORDER"
    ELSE IF row.Excess_Stock > 0 THEN "EXCESS"
    ELSE "HEALTHY"

\* _action_message: the f-string's fixed text and the number it interpolates
_action_message(level, row) ==
    CASE level = "CRITICAL" ->
            <<"Place EMERGENCY order of {eoq} units immediately", row.EOQ_Units>>
      [] level = "REORDER" ->
            <<"Place standard replenishment order of {eoq} units within 2 days",
              row.EOQ_Units>>
      [] level = "EXCESS" ->
            <<"Review {excess} excess units - consider promotion or markdown",
              row.Excess_Stock>>
      [] OTHER -> <<"No action required", 0>>

\* One row of df after the Alert_Level / Priority / Action_Message columns are
\* added, cut to the columns generate_alerts returns.  Generated_At (the wall
\* clock) is left out.
AlertRow(row) ==
    LET level == classify_alert(row)
    IN  [ Category          |-> row.Category,
          Current_Stock     |-> row.Current_Stock,
          Safety_Stock      |-> row.Safety_Stock,
          Reorder_Point     |-> row.Reorder_Point,
          EOQ_Units         |-> row.EOQ_Units,
          Days_of_Supply    |-> row.Days_of_Supply,
          Stockout_Risk_Pct |-> row.Stockout_Risk_Pct,
          Alert_Level       |-> level,
          Priority          |-> ALERT_THRESHOLDS(level),
          Action_Message    |-> _action_message(level, row) ]

\* df[df["Alert_Level"] != "HEALTHY"]
RECURSIVE NotHealthy(_)
NotHealthy(rows) ==
    IF rows = <<>> THEN <<>>
    ELSE IF rows[1].Alert_Level # "HEALTHY"
         THEN <<rows[1]>> \o NotHealthy(Tail(rows))
         ELSE NotHealthy(Tail(rows))

\* The sequence rows[p[1]], rows[p[2]], ...
Permuted(rows, p) == [k \in 1..Len(rows) |-> rows[p[k]]]

\* The filtered rows left in table order (the sort dropped)
sort_values_dropped(rows) == {rows}

\* .sort_values("Priority"): pandas sorts with kind="quicksort", which is not
\* stable, so rows of equal priority may come out in any order.  Every ordering
\* of the rows that is ascending in Priority is a possible result.
sort_values_Priority(rows) ==
    { Permuted(rows, p) :
        p \in { q \in [1..Len(rows) -> 1..Len(rows)] :
                  /\ \A a, b \in 1..Len(rows) : a # b => q[a] # q[b]
                  /\ \A a, b \in 1..Len(rows) :
                        a < b => rows[q[a]].Priority <= rows[q[b]].Priority } }

\* generate_alerts(inv_df): the outcomes it may have.  On a table without rows
\* df.apply(classify_alert, axis=1) gives an empty DataFrame instead of a Series,
\* and assigning that to the Alert_Level column raises ValueError in current
\* pandas releases, while older ones let it through; both outcomes are kept.
generate_alerts(inv_df) ==
    IF Len(inv_df) = 0 THEN {Raised("ValueError"), Returned(<<>>)}
    ELSE { Returned(t) :
             t \in sort_values_Priority(
                      NotHealthy([k \in 1..Len(inv_df) |-> AlertRow(inv_df[k])])) }

----------------------------------------------------------------------------
(* KPI counts: alert_engine.py, alert_summary_stats *)

\* inv_df["Days_of_Supply"].sum(), in tenths of a day
RECURSIVE SumDaysOfSupply(_)
SumDaysOfSupply(rows) ==
    IF Len(rows) = 0 THEN 0 ELSE rows[1].Days_of_Supply + SumDaysOfSupply(Tail(rows))

\* inv_df["Excess_Holding_Cost_INR"].sum(), in paise
RECURSIVE SumExcessHoldingCost(_)
SumExcessHoldingCost(rows) ==
    IF Len(rows) = 0 THEN 0
    ELSE rows[1].Excess_Holding_Cost_INR + SumExcessHoldingCost(Tail(rows))

\* alert_summary_stats with the reorder count written without its lower bound
\* Current_Stock >= Safety_Stock: a critical row is counted twice
alert_summary_stats_reorder_unbounded(inv_df) ==
    IF Len(inv_df) = 0 THEN [status |-> "KeyError"]
    ELSE LET rows     == 1..Len(inv_df)
             total    == Len(inv_df)
             critical == Cardinality({ i \in rows :
                            inv_df[i].Current_Stock < inv_df[i].Safety_Stock })
             reorder  == Cardinality({ i \in rows :
                            inv_df[i].Current_Stock < inv_df[i].Reorder_Point })
             excess   == Cardinality({ i \in rows : inv_df[i].Excess_Stock > 0 })
             healthy  == total - critical - reorder - excess
         IN  [ status            |-> "ok",
               total_products    |-> total,
               critical          |-> critical,
               reorder           |-> reorder,
               excess            |-> excess,
               healthy           |-> healthy,
               avg_days_supply   |-> RoundHalfEven(SumDaysOfSupply(inv_df), total),
               total_excess_cost |-> SumExcessHoldingCost(inv_df) ]

\* alert_summary_stats(inv_df): the dict of KPIs.  The table run_optimization
\* returns for an input without rows is pd.DataFrame([]), which has no columns,
\* so inv_df["Current_Stock"] raises KeyError.  avg_days_supply is
\* round(mean, 1) in tenths of a day; the Days_of_Supply values of the inputs
\* drawn below are multiples of 0.4, so no mean of them is a rounding tie.
alert_summary_stats(inv_df) ==
    IF Len(inv_df) = 0 THEN [status |-> "KeyError"]
    ELSE LET rows     == 1..Len(inv_df)
             total    == Len(inv_df)
             critical == Cardinality({ i \in rows :
                            inv_df[i].Current_Stock < inv_df[i].Safety_Stock })
             reorder  == Cardinality({ i \in rows :
                            /\ inv_df[i].Current_Stock >= inv_df[i].Safety_Stock
                            /\ inv_df[i].Current_Stock < inv_df[i].Reorder_Point })
             excess   == Cardinality({ i \in rows : inv_df[i].Excess_Stock > 0 })
             healthy  == total - critical - reorder - excess
         IN  [ status            |-> "ok",
               total_products    |-> total,
               critical          |-> critical,
               reorder           |-> reorder,
               excess            |-> excess,
               healthy           |-> healthy,
               avg_days_supply   |-> RoundHalfEven(SumDaysOfSupply(inv_df), total),
               total_excess_cost |-> SumExcessHoldingCost(inv_df) ]

----------------------------------------------------------------------------
(* SQL export: inventory_engine.py, to_sql_insert *)

\* A line of the generated text: its fixed text (the f-string with the
\* interpolated fields left in braces), the values interpolated, in order, and
\* the {comma} that ends it ("" on a line that has none)
SqlLine(text, args, end) == [text |-> text, args |-> args, end |-> end]

\* The six lines the list starts with
SqlHeader(snapshot_date) ==
    << SqlLine("-- Auto-generated by inventory_engine.py", <<>>, ""),
       SqlLine("-- Snapshot: {snapshot_date}", <<snapshot_date>>, ""),
       SqlLine("INSERT INTO fact_inventory", <<>>, ""),
       SqlLine("    (snapshot_date, product_id, current_stock, eoq_qty,", <<>>, ""),
       SqlLine("     safety_stock, reorder_point, daily_demand, lead_time_days)",
               <<>>, ""),
       SqlLine("VALUES", <<>>, "") >>

\* The line appended for the row of index label i (run_optimization returns a
\* table indexed 0 .. n-1).  Daily_Demand is formatted with .4f: the value
\* rounded to four decimals, in 1/10000.
SqlValueLine(inv_df, i, snapshot_date) ==
    LET row   == inv_df[i + 1]
        pid   == i + 1
        comma == IF i < Len(inv_df) - 1 THEN "," ELSE ";"
    IN  SqlLine("    ('{snapshot_date}', {pid}, {Current_Stock}, {EOQ_Units}, "
                  \o "{Safety_Stock}, {Reorder_Point}, {Daily_Demand:.4f}, 14)",
                << snapshot_date, pid, row.Current_Stock, row.EOQ_Units,
                   row.Safety_Stock, row.Reorder_Point,
                   RoundDec(row.Daily_Demand, 10000, 4) >>,
                comma)

\* to_sql_insert(inv_df, snapshot_date): the lines that "\n".join(lines) joins.
\* On a table without rows the loop appends nothing.
to_sql_insert(inv_df, snapshot_date) ==
    Ok(SqlHeader(snapshot_date)
       \o [k \in 1..Len(inv_df) |-> SqlValueLine(inv_df, k - 1, snapshot_date)])

----------------------------------------------------------------------------
(* Combined report: utils.py *)

\* alerts_df.set_index("Category")[["Alert_Level", "Action_Message"]]: the rows
\* of the alert table indexed by category c, cut to the two joined columns
RECURSIVE AlertMapRows(_, _)
AlertMapRows(alerts_df, c) ==
    IF Len(alerts_df) = 0 THEN <<>>
    ELSE (IF alerts_df[1].Category = c
          THEN << [ Alert_Level    |-> alerts_df[1].Alert_Level,
                    Action_Message |-> alerts_df[1].Action_Message ] >>
          ELSE <<>>) \o AlertMapRows(Tail(alerts_df), c)

\* merged.join(alert_map, on="Category", how="left") followed by the two
\* fillna calls: every row of inv_df in order, once per alert row of its
\* category, or once with the two missing values filled when there is none.
\* (A message is the pair of its text and the number it interpolates.)
RECURSIVE JoinLeft(_, _)
JoinLeft(inv_df, alerts_df) ==
    IF Len(inv_df) = 0 THEN <<>>
    ELSE LET m    == inv_df[1]
             hits == AlertMapRows(alerts_df, m.Category)
         IN  (IF Len(hits) = 0
              THEN << m @@ [ Alert_Level    |-> "HEALTHY",
                             Action_Message |-> <<"No action needed", 0>> ] >>
              ELSE [k \in 1..Len(hits) |-> m @@ hits[k]])
             \o JoinLeft(Tail(inv_df), alerts_df)

\* combined_report(inv_df, alerts_df).  With an alert table without rows
\* alert_map is pd.DataFrame(), "if not alert_map.empty" is skipped and merged
\* stays the copy of inv_df: no column is added.  save_csv writes merged to
\* out_path and does not change it.
combined_report(inv_df, alerts_df) ==
    IF Len(alerts_df) = 0 THEN Returned(inv_df)
    ELSE Returned(JoinLeft(inv_df, alerts_df))

----------------------------------------------------------------------------
(* Inputs *)

\* Values of the CategoryParams columns.  Unit cost 0 gives hc_pu = 0, the
\* invalid holding cost.  With the default configuration a row of demand 12000,
\* std-dev 100 and hc_pu 50 has EOQ 1095, safety stock 113 and reorder point 785,
\* so the stocks below fall under the safety stock (0), under the reorder point
\* (500), exactly on reorder point + EOQ (1880) and one above it (1881).
UnitCosts == {0, 200}
HoldingPcts == {1}
Demands == {0, 12000}
StdDevs == {0, 100}
Stocks == {0, 500, 1880, 1881}

\* The rows a table is made of.  A row with hc_pu <= 0 aborts the run before
\* any other column of it is used, so one such row stands for all of them; a
\* category has a demand deviation exactly when it has demand.
ParamRows ==
    { r \in [ Unit_Cost_INR : UnitCosts, Holding_Cost_Pct : HoldingPcts,
              Annual_Demand : Demands, Demand_StdDev : StdDevs,
              Current_Stock : Stocks ] :
        /\ (r.Unit_Cost_INR <= 0 =>
               r.Annual_Demand = 12000 /\ r.Demand_StdDev = 100 /\ r.Current_Stock = 500)
        /\ (r.Annual_Demand = 0) = (r.Demand_StdDev = 0) }

\* Row i of a table is category PRODUCTS[i]: Category is the unique key
WithCategory(r, i) ==
    [ Category         |-> PRODUCTS[i],
      Unit_Cost_INR    |-> r.Unit_Cost_INR,
      Holding_Cost_Pct |-> r.Holding_Cost_Pct,
      Annual_Demand    |-> r.Annual_Demand,
      Demand_StdDev    |-> r.Demand_StdDev,
      Current_Stock    |-> r.Current_Stock ]

TablesOfLen(n) == { [i \in 1..n |-> WithCategory(f[i], i)] : f \in [1..n -> ParamRows] }

Tables == UNION { TablesOfLen(n) : n \in 0..MaxRows }

\* baseline_order_qty arguments of cost_savings_analysis
Baselines == {0, BASELINE_ORDER_QTY}

NoCall == [fn |-> "none", args |-> <<>>, out |-> Ok(0)]

\* stats before alert_summary_stats is called
NoStats == [status |-> "none"]

\* sql_out before to_sql_insert is called
NoSql == [status |-> "none", ret |-> <<>>]

\* to_sql_insert(snapshot_date = "2025-02-01")
SNAPSHOT_DATE == "2025-02-01"

----------------------------------------------------------------------------
(* The pipeline: a table is loaded, then the engine's functions are called  *)
(* on it in any order.                                                      *)

Init ==
    /\ params \in Tables
    /\ inv = NoResult
    /\ inv_prev = NoResult
    /\ alerts = NoResult
    /\ savings = NoResult
    /\ call = NoCall
    /\ report = NoResult
    /\ stats = NoStats
    /\ sql = NoSql

\* inv_df = run_optimization(params); the model follows two runs on the table
RunOptimization ==
    /\ inv_prev = NoResult
    /\ inv' = run_optimization(params, ORDERING_COST)
    /\ inv_prev' = inv
    /\ UNCHANGED <<params, alerts, savings, call, report, stats, sql>>

\* alerts = generate_alerts(inv_df), once a table has been computed.  A second
\* call could only return one of the tables the first one could.
GenerateAlerts ==
    /\ inv.status = "ok"
    /\ alerts = NoResult
    /\ \E out \in generate_alerts(inv.df) : alerts' = out
    /\ UNCHANGED <<params, inv, inv_prev, savings, call, report, stats, sql>>

\* savings = cost_savings_analysis(params, baseline_order_qty), called once
CostSavingsAnalysis ==
    /\ savings = NoResult
    /\ \E b \in Baselines : savings' = cost_savings_analysis(params, b, ORDERING_COST)
    /\ UNCHANGED <<params, inv, inv_prev, alerts, call, report, stats, sql>>

Next == RunOptimization \/ GenerateAlerts \/ CostSavingsAnalysis

Spec == Init /\ [][Next]_vars

----------------------------------------------------------------------------
(* The Formula Library called directly: one call of one function on scalar  *)
(* arguments, beside run_optimization on a table of at most one row.        *)

EoqDemands == 0..MaxDemand \cup {12000}
EoqOrderCosts == 0..MaxOrderCost \cup {ORDERING_COST}
EoqHoldings == -2..MaxHolding \cup {200}

FormulaInit ==
    /\ params \in TablesOfLen(0) \cup TablesOfLen(1)
    /\ inv = NoResult
    /\ inv_prev = NoResult
    /\ alerts = NoResult
    /\ savings = NoResult
    /\ call = NoCall
    /\ report = NoResult
    /\ stats = NoStats
    /\ sql = NoSql

CallEoq ==
    /\ call = NoCall
    /\ \E D \in EoqDemands, S \in EoqOrderCosts, H \in EoqHoldings :
          call' = [fn |-> "eoq", args |-> <<D, S, H>>, out |-> eoq(D, S, H)]
    /\ UNCHANGED <<params, inv, inv_prev, alerts, savings, report, stats, sql>>

CallAnnualOrderingCost ==
    /\ call = NoCall
    /\ \E D \in 0..MaxDemand, q \in 0..MaxQty, S \in 0..MaxOrderCost :
          call' = [fn |-> "annual_ordering_cost", args |-> <<D, q, S>>,
                   out |-> annual_ordering_cost(D, q, S)]
    /\ UNCHANGED <<params, inv, inv_prev, alerts, savings, report, stats, sql>>

CallStockoutRisk ==
    /\ call = NoCall
    /\ \E cs \in 0..MaxQty, rop \in 0..MaxQty :
          call' = [fn |-> "stockout_risk", args |-> <<cs, rop>>,
                   out |-> stockout_risk(cs, rop)]
    /\ UNCHANGED <<params, inv, inv_prev, alerts, savings, report, stats, sql>>

CallDaysOfSupply ==
    /\ call = NoCall
    /\ \E cs \in 0..MaxQty, D \in 0..MaxDemand :
          call' = [fn |-> "days_of_supply", args |-> <<cs, D, WORKING_DAYS>>,
                   out |-> days_of_supply(cs, D, WORKING_DAYS)]
    /\ UNCHANGED <<params, inv, inv_prev, alerts, savings, report, stats, sql>>

FormulaNext ==
    \/ RunOptimization
    \/ CallEoq
    \/ CallAnnualOrderingCost
    \/ CallStockoutRisk
    \/ CallDaysOfSupply

FormulaSpec == FormulaInit /\ [][FormulaNext]_vars

----------------------------------------------------------------------------
(* The reports derived from a computed table: the alert report, the combined *)
(* report, the KPI counts and the SQL statement, each asked for once, in any *)
(* order, on tables of rows that run_optimization accepts.                   *)

\* The valid rows: the four stocks of a category with demand (CRITICAL, REORDER,
\* HEALTHY on the boundary, EXCESS) and, for a category without demand (EOQ,
\* safety stock and reorder point 0), no stock (HEALTHY) and some (EXCESS)
ReportRows ==
    { r \in ParamRows :
        /\ HoldingCostPU(r) > 0
        /\ (r.Annual_Demand = 0 => r.Current_Stock \in {0, 500}) }

ReportTables ==
    UNION { { [i \in 1..n |-> WithCategory(f[i], i)] : f \in [1..n -> ReportRows] } :
            n \in 0..MaxRows }

ReportInit ==
    /\ params \in ReportTables
    /\ inv = NoResult
    /\ inv_prev = NoResult
    /\ alerts = NoResult
    /\ savings = NoResult
    /\ call = NoCall
    /\ report = NoResult
    /\ stats = NoStats
    /\ sql = NoSql

\* combined_report(inv_df, alerts_df) on a computed table and its alert report
CombinedReport ==
    /\ inv.status = "ok"
    /\ alerts.status = "ok"
    /\ report = NoResult
    /\ report' = combined_report(inv.df, alerts.df)
    /\ UNCHANGED <<params, inv, inv_prev, alerts, savings, call, stats, sql>>

\* stats = alert_summary_stats(inv_df) on a computed table
AlertSummaryStats ==
    /\ inv.status = "ok"
    /\ stats.status = "none"
    /\ stats' = alert_summary_stats(inv.df)
    /\ UNCHANGED <<params, inv, inv_prev, alerts, savings, call, report, sql>>

\* sql_out = to_sql_insert(inv_df) on a computed table
ToSqlInsert ==
    /\ inv.status = "ok"
    /\ sql.status = "none"
    /\ sql' = to_sql_insert(inv.df, SNAPSHOT_DATE)
    /\ UNCHANGED <<params, inv, inv_prev, alerts, savings, call, report, stats>>

ReportNext ==
    \/ RunOptimization
    \/ GenerateAlerts
    \/ CombinedReport
    \/ AlertSummaryStats
    \/ ToSqlInsert

ReportSpec == ReportInit /\ [][ReportNext]_vars

----------------------------------------------------------------------------
(* The comparator called with its scalar arguments passed explicitly, on a   *)
(* table of one valid category with a small demand and holding cost.         *)

\* One category: unit cost 1..MaxHolding at a holding fraction of 0.25 (hc_pu
\* 0.25 .. MaxHolding/4), annual demand 0..MaxDemand
SavingsRows ==
    [ Unit_Cost_INR : 1..MaxHolding, Holding_Cost_Pct : {1},
      Annual_Demand : 0..MaxDemand, Demand_StdDev : StdDevs,
      Current_Stock : {0} ]

SavingsInit ==
    /\ params \in { <<WithCategory(r, 1)>> : r \in SavingsRows }
    /\ inv = NoResult
    /\ inv_prev = NoResult
    /\ alerts = NoResult
    /\ savings = NoResult
    /\ call = NoCall
    /\ report = NoResult
    /\ stats = NoStats
    /\ sql = NoSql

\* savings = cost_savings_analysis(params, baseline_order_qty, ordering_cost);
\* call keeps the two scalar arguments
CostSavingsAnalysisWith ==
    /\ savings = NoResult
    /\ \E b \in 1..MaxQty, S \in 1..MaxOrderCost :
          /\ savings' = cost_savings_analysis(params, b, S)
          /\ call' = [fn |-> "cost_savings_analysis", args |-> <<b, S>>, out |-> Ok(0)]
    /\ UNCHANGED <<params, inv, inv_prev, alerts, report, stats, sql>>

SavingsNext == CostSavingsAnalysisWith

SavingsSpec == SavingsInit /\ [][SavingsNext]_vars

----------------------------------------------------------------------------
(* Properties *)

\* The four rules as the specification states them, first match wins
RuleTier(currentStock, safetyStock, reorderPoint, excessStock) ==
    IF currentStock < safetyStock THEN "CRITICAL"
    ELSE IF currentStock < reorderPoint THEN "REORDER"
    ELSE IF excessStock > 0 THEN "EXCESS"
    ELSE "HEALTHY"

RuleTag(tier) ==
    CASE tier = "CRITICAL" -> TAG_CRITICAL
      [] tier = "REORDER"  -> TAG_REORDER
      [] tier = "EXCESS"   -> TAG_EXCESS
      [] tier = "HEALTHY"  -> TAG_HEALTHY

RuleAction(tier) ==
    CASE tier = "CRITICAL" -> "Emergency order now"
      [] tier = "REORDER"  -> "Place replenishment order"
      [] tier = "EXCESS"   -> "Review demand; consider promotion"
      [] tier = "HEALTHY"  -> "No action needed"

RulePriority(tier) ==
    CASE tier = "CRITICAL" -> 1
      [] tier = "REORDER"  -> 2
      [] tier = "EXCESS"   -> 3
      [] tier = "HEALTHY"  -> 4

\* The tier an Alert_Status tag names
TierOfTag(tag) ==
    CASE tag = TAG_CRITICAL -> "CRITICAL"
      [] tag = TAG_REORDER  -> "REORDER"
      [] tag = TAG_EXCESS   -> "EXCESS"
      [] tag = TAG_HEALTHY  -> "HEALTHY"

RowTier(m) == RuleTier(m.Current_Stock, m.Safety_Stock, m.Reorder_Point, m.Excess_Stock)

\* C1: in every row run_optimization returns, the tag and the action string are
\* those of the tier the four ordered rules give (CRITICAL, else REORDER, else
\* EXCESS when excess stock > 0, else HEALTHY), so both belong to one tier; and
\* a stock exactly equal to reorder point + EOQ has no excess and is HEALTHY.
C1_TagAndActionFollowTheFourRules ==
    inv.status = "ok" =>
        \A i \in 1..Len(inv.df) :
            LET m == inv.df[i]
            IN  /\ m.Alert_Status = RuleTag(RowTier(m))
                /\ m.Recommended_Action = RuleAction(RowTier(m))
                /\ (m.Current_Stock = m.Reorder_Point + m.EOQ_Units =>
                        /\ m.Excess_Stock = 0
                        /\ m.Alert_Status = TAG_HEALTHY
                        /\ m.Recommended_Action = "No action needed")

\* C1 witness: a returned table holding a row whose stock is exactly reorder
\* point + EOQ, tagged HEALTHY, and a row below its safety stock and its
\* reorder point, tagged CRITICAL
C1_Witness ==
    /\ inv.status = "ok"
    /\ \E i, j \in 1..Len(inv.df) :
          /\ inv.df[i].EOQ_Units > 0
          /\ inv.df[i].Current_Stock = inv.df[i].Reorder_Point + inv.df[i].EOQ_Units
          /\ inv.df[i].Alert_Status = TAG_HEALTHY
          /\ inv.df[j].Current_Stock < inv.df[j].Safety_Stock
          /\ inv.df[j].Current_Stock < inv.df[j].Reorder_Point
          /\ inv.df[j].Alert_Status = TAG_CRITICAL
          /\ inv.df[j].Recommended_Action = "Emergency order now"

\* C2: for every row run_optimization returns, the tier classify_alert derives
\* from the row's columns is the tier its Alert_Status tag names
C2_ClassifierAgreesWithTag ==
    inv.status = "ok" =>
        \A i \in 1..Len(inv.df) :
            classify_alert(inv.df[i]) = TierOfTag(inv.df[i].Alert_Status)

\* C2 witness: a returned table with rows of three different tiers, each
\* classified as it is tagged
C2_Witness ==
    /\ inv.status = "ok"
    /\ \E i, j, k \in 1..Len(inv.df) :
          /\ classify_alert(inv.df[i]) = "CRITICAL"
          /\ inv.df[i].Alert_Status = TAG_CRITICAL
          /\ classify_alert(inv.df[j]) = "REORDER"
          /\ inv.df[j].Alert_Status = TAG_REORDER
          /\ classify_alert(inv.df[k]) = "EXCESS"
          /\ inv.df[k].Alert_Status = TAG_EXCESS

\* C3: the report generate_alerts returns holds exactly the categories whose
\* tier by the four rules is not HEALTHY, each once, with that tier and priority
\* CRITICAL=1, REORDER=2, EXCESS=3, in ascending priority order
C3_AlertReportFilteredAndSorted ==
    (alerts.status = "ok" /\ inv.status = "ok") =>
        LET A == alerts.df
            M == inv.df
        IN  /\ \A k \in 1..Len(A) :
                  /\ A[k].Alert_Level # "HEALTHY"
                  /\ A[k].Priority = RulePriority(A[k].Alert_Level)
                  /\ \E i \in 1..Len(M) :
                        /\ M[i].Category = A[k].Category
                        /\ RowTier(M[i]) = A[k].Alert_Level
                        /\ M[i].Current_Stock = A[k].Current_Stock
            /\ \A i \in 1..Len(M) :
                  Cardinality({k \in 1..Len(A) : A[k].Category = M[i].Category})
                      = IF RowTier(M[i]) = "HEALTHY" THEN 0 ELSE 1
            /\ \A a, b \in 1..Len(A) : a < b => A[a].Priority <= A[b].Priority
            /\ \A a, b \in 1..Len(A) :
                  (A[a].Alert_Level = "CRITICAL" /\ A[b].Alert_Level = "REORDER") => a < b
            /\ \A a, b \in 1..Len(A) :
                  (A[a].Alert_Level = "REORDER" /\ A[b].Alert_Level = "EXCESS") => a < b

\* C3 witness: a table of an EXCESS, a HEALTHY and a CRITICAL row, in that
\* order, whose report is the CRITICAL row followed by the EXCESS row
C3_Witness ==
    /\ alerts.status = "ok"
    /\ inv.status = "ok"
    /\ Len(inv.df) = 3
    /\ RowTier(inv.df[1]) = "EXCESS"
    /\ RowTier(inv.df[2]) = "HEALTHY"
    /\ RowTier(inv.df[3]) = "CRITICAL"
    /\ Len(alerts.df) = 2
    /\ alerts.df[1].Category = inv.df[3].Category
    /\ alerts.df[2].Category = inv.df[1].Category

\* C4: eoq(D, S, H) raises the invalid-input error and returns no value for
\* every H <= 0; for D >= 0, S >= 0, H > 0 it returns the integer nearest to
\* sqrt(2*D*S/H), that is an r >= 0 with r - 1/2 <= sqrt(2DS/H) <= r + 1/2;
\* eoq(12000, 2500, 50) = 1095.  (H = args[3] / PCT_DEN.)
C4_EoqRoundsTheSquareRoot ==
    call.fn = "eoq" =>
        LET D == call.args[1]
            S == call.args[2]
            H4 == call.args[3]
            r == call.out.ret
        IN  /\ (H4 <= 0 => call.out = Raise("ValueError"))
            /\ (H4 > 0 /\ D >= 0 /\ S >= 0 =>
                    /\ call.out.status = "ok"
                    /\ r >= 0
                    /\ (r >= 1 => (2 * r - 1) * (2 * r - 1) * H4 <= 8 * D * S * PCT_DEN)
                    /\ 8 * D * S * PCT_DEN <= (2 * r + 1) * (2 * r + 1) * H4)
            /\ (D = 12000 /\ S = 2500 /\ H4 = 50 * PCT_DEN => r = 1095)

\* C4 witness: the call eoq(12000, 2500, 50) has returned 1095
C4_Witness ==
    /\ call.fn = "eoq"
    /\ call.args = <<12000, 2500, 50 * PCT_DEN>>
    /\ call.out = Ok(1095)

\* C5: when some row of the input has holding cost per unit <= 0, a finished
\* run_optimization has raised the invalid-input error and returned no table:
\* no rows at all, neither the ones before the bad row nor the bad row itself
C5_BadRowFailsTheWholeRun ==
    (inv.status # "none" /\ \E i \in 1..Len(params) : HoldingCostPU(params[i]) <= 0) =>
        /\ inv.status = "ValueError"
        /\ inv.df = <<>>

\* C5 witness: the run has failed on a table whose only bad row is the last of
\* three
C5_Witness ==
    /\ inv.status = "ValueError"
    /\ Len(params) = 3
    /\ HoldingCostPU(params[1]) > 0
    /\ HoldingCostPU(params[2]) > 0
    /\ HoldingCostPU(params[3]) <= 0

\* C6: in every row run_optimization returns, EOQ_Units, Safety_Stock,
\* Reorder_Point and Excess_Stock are integers >= 0, Days_of_Supply and
\* Stockout_Risk_Pct are >= 0, and Stockout_Risk_Pct is 0 whenever
\* Current_Stock >= Reorder_Point
C6_MetricsAreNonNegative ==
    inv.status = "ok" =>
        \A i \in 1..Len(inv.df) :
            LET m == inv.df[i]
            IN  /\ m.EOQ_Units \in Nat
                /\ m.Safety_Stock \in Nat
                /\ m.Reorder_Point \in Nat
                /\ m.Excess_Stock \in Nat
                /\ m.Days_of_Supply >= 0
                /\ m.Stockout_Risk_Pct >= 0
                /\ (m.Current_Stock >= m.Reorder_Point => m.Stockout_Risk_Pct = 0)

\* C6 witness: a returned row with a positive safety stock whose stock is above
\* its positive reorder point, at risk 0, beside a row below its reorder point
\* at a positive risk
C6_Witness ==
    /\ inv.status = "ok"
    /\ \E i, j \in 1..Len(inv.df) :
          /\ inv.df[i].Safety_Stock > 0
          /\ inv.df[i].Reorder_Point > 0
          /\ inv.df[i].Current_Stock > inv.df[i].Reorder_Point
          /\ inv.df[i].Stockout_Risk_Pct = 0
          /\ inv.df[j].Current_Stock < inv.df[j].Reorder_Point
          /\ inv.df[j].Stockout_Risk_Pct > 0

\* Whether every row of the input has a holding cost per unit > 0
AllRowsValid == \A i \in 1..Len(params) : HoldingCostPU(params[i]) > 0

\* C7: on any sequence of valid rows, the empty one included,
\* cost_savings_analysis returns the per-category rows in input order and then
\* one TOTAL row, whose before and after costs are the sums over the category
\* rows and whose saving% is (sum(before) - sum(after)) / sum(before) x 100
C7_TotalRowLastOverSums ==
    (savings.status # "none" /\ AllRowsValid) =>
        LET df == savings.df
            n  == Len(params)
            sb == SumBefore(SubSeq(df, 1, n))
            sa == SumAfter(SubSeq(df, 1, n))
        IN  /\ savings.status = "ok"
            /\ Len(df) = n + 1
            /\ \A i \in 1..n : df[i].Category = params[i].Category
            /\ df[n + 1].Category = "TOTAL"
            /\ df[n + 1].Before_Cost_INR = sb
            /\ df[n + 1].After_Cost_INR = sa
            /\ (sb > 0 => df[n + 1].Saving_Pct = Num(RoundDec(sb - sa, sb, 3)))

\* C8: every row cost_savings_analysis outputs, the TOTAL row included, has a
\* defined saving%: (before - after) / before x 100 when before > 0, and 0 when
\* before = 0
C8_SavingPctAlwaysDefined ==
    savings.status = "ok" =>
        \A k \in 1..Len(savings.df) :
            LET row == savings.df[k]
            IN  /\ row.Saving_Pct.kind = "num"
                /\ (row.Before_Cost_INR > 0 =>
                        row.Saving_Pct.v =
                            RoundDec(row.Before_Cost_INR - row.After_Cost_INR,
                                     row.Before_Cost_INR, 3))
                /\ (row.Before_Cost_INR = 0 => row.Saving_Pct.v = 0)

\* The columns of a row other than its Category
SameParams(r1, r2) == [r1 EXCEPT !.Category = ""] = [r2 EXCEPT !.Category = ""]

C10_ZeroDenominatorsReturnZero ==
    /\ (call.fn = "annual_ordering_cost" /\ call.args[2] = 0) => call.out = Ok(0)
    /\ (call.fn = "stockout_risk" /\ call.args[2] = 0) => call.out = Ok(0)
    /\ (call.fn = "days_of_supply" /\ call.args[2] = 0) => call.out = Ok(0)
    /\ (/\ inv.status # "none"
        /\ Len(params) = 1
        /\ params[1].Annual_Demand = 0
        /\ params[1].Demand_StdDev = 0
        /\ HoldingCostPU(params[1]) > 0) =>
            /\ inv.status = "ok"
            /\ Len(inv.df) = 1
            /\ inv.df[1].EOQ_Units = 0
            /\ inv.df[1].Reorder_Point = 0
            /\ inv.df[1].Annual_Ordering_Cost_INR = 0
            /\ inv.df[1].Days_of_Supply = 0
            /\ inv.df[1].Stockout_Risk_Pct = 0

\* C10 witness: annual_ordering_cost has returned 0 for a positive demand and
\* EOQ = 0, after run_optimization returned the table of a row without demand
\* that holds stock
C10_Witness ==
    /\ call.fn = "annual_ordering_cost"
    /\ call.args[1] > 0
    /\ call.args[2] = 0
    /\ call.args[3] > 0
    /\ call.out = Ok(0)
    /\ inv.status = "ok"
    /\ Len(params) = 1
    /\ params[1].Annual_Demand = 0
    /\ params[1].Demand_StdDev = 0
    /\ params[1].Current_Stock > 0

\* The alert-table rows of category c
AlertsOf(c) == { k \in 1..Len(alerts.df) : alerts.df[k].Category = c }

\* C11: the table combined_report returns has one row per row of the metrics
\* table, in the same order, and every row has an Alert_Level and an
\* Action_Message: those of the category's alert row when the alert table has
\* one, HEALTHY / "No action needed" otherwise; also when the alert table is
\* empty
C11_CombinedReportCoversEveryCategory ==
    report.status = "ok" =>
        /\ Len(report.df) = Len(inv.df)
        /\ \A i \in 1..Len(inv.df) :
              LET row == report.df[i]
              IN  /\ row.Category = inv.df[i].Category
                  /\ "Alert_Level" \in DOMAIN row
                  /\ "Action_Message" \in DOMAIN row
                  /\ \A k \in AlertsOf(row.Category) :
                        /\ row.Alert_Level = alerts.df[k].Alert_Level
                        /\ row.Action_Message = alerts.df[k].Action_Message
                  /\ (AlertsOf(row.Category) = {} =>
                        /\ row.Alert_Level = "HEALTHY"
                        /\ row.Action_Message[1] = "No action needed")


\* The number of rows of the computed table that classify_alert puts in a tier
TierCount(tier) ==
    Cardinality({ i \in 1..Len(inv.df) : classify_alert(inv.df[i]) = tier })

\* C12: the KPI counts alert_summary_stats returns for a table run_optimization
\* produced partition its rows by tier: critical, reorder, excess and healthy
\* are each the number of rows classify_alert assigns to that tier, healthy is
\* not negative, and the four add up to total_products, the number of rows
C12_KpiCountsPartitionByTier ==
    stats.status = "ok" =>
        /\ stats.total_products = Len(inv.df)
        /\ stats.critical = TierCount("CRITICAL")
        /\ stats.reorder = TierCount("REORDER")
        /\ stats.excess = TierCount("EXCESS")
        /\ stats.healthy = TierCount("HEALTHY")
        /\ stats.healthy >= 0
        /\ stats.critical + stats.reorder + stats.excess + stats.healthy
              = stats.total_products

\* C12 witness: the KPIs of a table of three rows, one CRITICAL (below its
\* safety stock and its reorder point), one EXCESS and one HEALTHY
C12_Witness ==
    /\ stats.status = "ok"
    /\ stats.total_products = 3
    /\ stats.critical = 1
    /\ stats.reorder = 0
    /\ stats.excess = 1
    /\ stats.healthy = 1
    /\ \E i \in 1..Len(inv.df) :
          /\ inv.df[i].Current_Stock < inv.df[i].Safety_Stock
          /\ inv.df[i].Current_Stock < inv.df[i].Reorder_Point


\* The lines of the generated statement that end with a semicolon
Terminators == { k \in 1..Len(sql.ret) : sql.ret[k].end = ";" }

\* C13: for a computed table of n rows to_sql_insert emits the INSERT header
\* and then exactly n value tuples in row order, the i-th with product_id = i
\* and row i's current stock, EOQ, safety stock and reorder point; the first
\* n-1 tuples end with a comma and the last with a semicolon, so exactly one
\* line terminates the statement, for every n, n = 0 and n = 1 included
C13_OneInsertTerminatedOnce ==
    sql.status = "ok" =>
        LET lines == sql.ret
            n     == Len(inv.df)
            h     == Len(SqlHeader(SNAPSHOT_DATE))
        IN  /\ Len(lines) = h + n
            /\ SubSeq(lines, 1, h) = SqlHeader(SNAPSHOT_DATE)
            /\ Cardinality({ k \in 1..h : lines[k].text = "INSERT INTO fact_inventory" }) = 1
            /\ \A i \in 1..n :
                  /\ lines[h + i].args[2] = i
                  /\ lines[h + i].args[3] = inv.df[i].Current_Stock
                  /\ lines[h + i].args[4] = inv.df[i].EOQ_Units
                  /\ lines[h + i].args[5] = inv.df[i].Safety_Stock
                  /\ lines[h + i].args[6] = inv.df[i].Reorder_Point
                  /\ lines[h + i].end = (IF i < n THEN "," ELSE ";")
            /\ Cardinality(Terminators) = 1


\* C14: for a positive baseline order quantity and valid categories (holding
\* cost per unit > 0, annual demand >= 0), in every row cost_savings_analysis
\* returns the cost under the rounded EOQ is not above the cost under the
\* baseline quantity: After_Cost_INR <= Before_Cost_INR and Saving_INR >= 0,
\* in each category row and so in the TOTAL row
C14_EoqNeverCostsMoreThanBaseline ==
    (/\ savings.status = "ok"
     /\ call.fn = "cost_savings_analysis"
     /\ call.args[1] > 0
     /\ \A i \in 1..Len(params) :
           HoldingCostPU(params[i]) > 0 /\ params[i].Annual_Demand >= 0) =>
        \A k \in 1..Len(savings.df) :
            /\ savings.df[k].After_Cost_INR <= savings.df[k].Before_Cost_INR
            /\ savings.df[k].Saving_INR >= 0


============================================================================
